---- MODULE Spec2Model ----
(***************************************************************************)
(* Model of the video-to-audio transcoding pipeline of SearchInVideos      *)
(* (video_processing.py) and of its analysis-file cache (app_utils.py,     *)
(* analysis_utils.py).                                                     *)
(*                                                                         *)
(* Strings of the program are sequences of one-character strings, so that  *)
(* basename, splitext, lower, endswith and replace are computed the way    *)
(* the Python library computes them.  The filesystem is the set of paths   *)
(* that exist under output/audio and a map from paths under                *)
(* output/analysis to their content.  Calls into moviepy, pydub and the    *)
(* operating system that can fail are nondeterministic choices over their  *)
(* outcomes.                                                               *)
(***************************************************************************)
EXTENDS Integers, Sequences, FiniteSets, TLC

\* ------------------------------------------------------------------ bounds
\* Longest directory listing handed to process_videos_in_directory.
MaxEntries == 2
\* Number of top-level calls (video_to_audio or process_videos_in_directory)
\* in one behaviour.
MaxOps == 2
\* Longest analysis text written by save_analysis.
MaxTextLen == 2
\* Number of analysis operations in one behaviour.
MaxAnalysisOps == 3

\* --------------------------------------------------------------- strings
\* Python's None, as a value that is no path: paths are made of single
\* characters.
None == <<"None">>

UpperAlpha ==
  <<"A","B","C","D","E","F","G","H","I","J","K","L","M",
    "N","O","P","Q","R","S","T","U","V","W","X","Y","Z">>
LowerAlpha ==
  <<"a","b","c","d","e","f","g","h","i","j","k","l","m",
    "n","o","p","q","r","s","t","u","v","w","x","y","z">>

\* Faulty variant of LowerChar: upper-case letters are left alone.
LowerCharIdentity(c) == c

\* One character of str.lower().
LowerChar(c) ==
  IF \E i \in 1..Len(UpperAlpha) : UpperAlpha[i] = c
  THEN LowerAlpha[CHOOSE i \in 1..Len(UpperAlpha) : UpperAlpha[i] = c]
  ELSE c

\* str.lower()
Lower(s) == [i \in 1..Len(s) |-> LowerChar(s[i])]

\* str.endswith(suffix)
EndsWith(s, suffix) ==
  /\ Len(suffix) <= Len(s)
  /\ SubSeq(s, Len(s) - Len(suffix) + 1, Len(s)) = suffix

\* s[i:i+len(t)] == t
OccursAt(s, t, i) ==
  /\ i + Len(t) - 1 <= Len(s)
  /\ SubSeq(s, i, i + Len(t) - 1) = t

\* str.rfind(c) for a one-character c, 1-based; 0 when absent.
RFind(s, c) ==
  IF \E i \in 1..Len(s) : s[i] = c
  THEN CHOOSE i \in 1..Len(s) : s[i] = c /\ \A j \in (i+1)..Len(s) : s[j] # c
  ELSE 0

\* os.path.basename(p): what follows the last "/".
Basename(p) == SubSeq(p, RFind(p, "/") + 1, Len(p))

\* os.path.join(a, b) for a relative b and a non-empty a without a
\* trailing separator.
Join(a, b) == a \o <<"/">> \o b

\* os.path.splitext(p)[0]: cut at the last dot after the last separator,
\* unless only dots precede it in the file name.
SplitextRoot(p) ==
  LET sepIndex == RFind(p, "/")
      dotIndex == RFind(p, ".")
  IN  IF /\ dotIndex > sepIndex
         /\ \E k \in (sepIndex + 1)..(dotIndex - 1) : p[k] # "."
      THEN SubSeq(p, 1, dotIndex - 1)
      ELSE p

\* str.replace(old, new): every non-overlapping occurrence, left to right.
RECURSIVE ReplaceFrom(_, _, _, _)
ReplaceFrom(s, old, new, i) ==
  IF i > Len(s) THEN <<>>
  ELSE IF OccursAt(s, old, i)
       THEN new \o ReplaceFrom(s, old, new, i + Len(old))
       ELSE <<s[i]>> \o ReplaceFrom(s, old, new, i + 1)

Replace(s, old, new) == ReplaceFrom(s, old, new, 1)

\* ------------------------------------------------------- names and paths
audio_dir == <<"o","u","t","p","u","t","/","a","u","d","i","o">>
analysis_dir == <<"o","u","t","p","u","t","/","a","n","a","l","y","s","i","s">>

Ext_mp3 == <<".","m","p","3">>
Suffix_temp_wav == <<"_","t","e","m","p",".","w","a","v">>
Suffix_analysis_txt == <<"_","a","n","a","l","y","s","i","s",".","t","x","t">>

\* video_extensions of process_videos_in_directory
video_extensions ==
  { <<".","m","p","4">>, <<".","a","v","i">>,
    <<".","m","o","v">>, <<".","m","k","v">> }

\* filename.lower().endswith(video_extensions)
IsVideoName(filename) ==
  \E e \in video_extensions : EndsWith(Lower(filename), e)

\* Faulty variant of BaseName: the extension is kept.
BaseNameWithExt(video_path) == Basename(video_path)

\* base_name of video_to_audio
BaseName(video_path) == SplitextRoot(Basename(video_path))

\* temp_audio of video_to_audio
TempAudio(video_path) == Join(audio_dir, BaseName(video_path) \o Suffix_temp_wav)

\* final_audio of video_to_audio
FinalAudio(video_path) == Join(audio_dir, BaseName(video_path) \o Ext_mp3)


\* ---------------------------------------------------------------- inputs
\* The directory that holds the videos, and a path that is no directory.
video_dir == <<"v">>
missing_dir == <<"n","o">>

\* os.path.isdir() answers true for these.
ExistingDirs == { video_dir }

N_a_mp4 == <<"a",".","m","p","4">>
N_a_mkv == <<"a",".","m","k","v">>
N_b_txt == <<"b",".","t","x","t">>
N_c_MKV == <<"c",".","M","K","V">>
N_mov == <<"m","o","v">>

\* Names a directory listing is made of.
EntryNames == { N_a_mp4, N_a_mkv, N_b_txt, N_c_MKV, N_mov }

RECURSIVE SeqsUpTo(_, _)
SeqsUpTo(S, n) ==
  IF n = 0 THEN { <<>> }
  ELSE LET shorter == SeqsUpTo(S, n - 1)
       IN  shorter \cup { Append(q, x) : q \in shorter, x \in S }

\* Results of os.listdir(): sequences of distinct names, in any order.
Listings ==
  { q \in SeqsUpTo(EntryNames, MaxEntries) :
      \A i, j \in 1..Len(q) : i # j => q[i] # q[j] }

\* Paths video_to_audio is called with directly.
VideoPaths == { Join(video_dir, n) : n \in { N_a_mp4, N_a_mkv, N_c_MKV } }

\* max_size_mb: the default of video_to_audio and a smaller ceiling.
DefaultMaxSizeMb == 15
MaxSizes == { DefaultMaxSizeMb, 1 }

MiB == 1048576

\* os.path.getsize(temp_audio) for a ceiling of m megabytes: below the
\* ceiling, on it, one byte above it.
SizesFor(m) == { 1, m * MiB, m * MiB + 1 }

\* len(audio), the duration of the intermediate file in milliseconds.
Durations == { 0, 10000, 640001, 1000000, 100000000 }

\* ------------------------------------------------------- size targeting
Max2(a, b) == IF a >= b THEN a ELSE b
Min2(a, b) == IF a <= b THEN a ELSE b

\* Faulty variant of WithinLimit: the comparison is strict.
WithinLimitStrict(bytes, m) == bytes < m * MiB

\* current_size <= max_size_mb, with current_size = getsize / (1024 * 1024)
WithinLimit(bytes, m) == bytes <= m * MiB

\* Faulty variant of Bitrate: min and max exchanged.
BitrateSwapped(m, ms) ==
  Min2(32, Max2(192, (m * 8192 * 1000) \div ms))

\* duration_s = len(audio) / 1000
\* target_bitrate = int((max_size_mb * 8192) / duration_s)
\* bitrate = max(32, min(192, target_bitrate))
Bitrate(m, ms) ==
  Max2(32, Min2(192, (m * 8192 * 1000) \div ms))

\* ----------------------------------------------------------------- state
VARIABLES
  pc,                     \* position of the running call
  caller,                 \* "top" or "batch": who called video_to_audio
  ops,                    \* top-level calls started so far
  dirs,                   \* output directories that exist
  files,                  \* paths that exist under output/audio
  video_path, max_size_mb, temp_audio, final_audio,   \* video_to_audio frame
  ret,                    \* value video_to_audio is about to return
  raised,                 \* an exception is propagating out of the call
  obs,                    \* what the running call of video_to_audio has done
  directory, listing, idx, processed_audio_files,     \* batch frame
  invoked,                \* indices of the entries handed to video_to_audio
  results,                \* what video_to_audio returned for them
  batchStatus,            \* "none", "running", "returned" or "raised"
  fs0,                    \* files and dirs when the batch was called
  encodedOk,              \* final paths some call encoded and returned
  okCalls,                \* <<video_path, path>> of calls that encoded
  analysis,               \* output/analysis: path -> content
  saved,                  \* audio_file -> text of its last save_analysis
  last,                   \* result of the last analysis operation
  aops                    \* analysis operations done so far

frame == <<video_path, max_size_mb, temp_audio, final_audio, ret, raised, obs>>
batch == <<directory, listing, idx, processed_audio_files, invoked, results,
           batchStatus, fs0>>
hist == <<encodedOk, okCalls>>
ana == <<analysis, saved, last, aops>>
vars == <<pc, caller, ops, dirs, files, frame, batch, hist, ana>>

NoObs ==
  [ hit |-> FALSE, decodes |-> 0, encodes |-> 0, tempCreated |-> FALSE,
    noAudio |-> FALSE, failed |-> "", size_bytes |-> 0, duration_ms |-> 0,
    bitrate |-> 0, exportOk |-> FALSE, files0 |-> {} ]

Init ==
  /\ pc = "idle" /\ caller = "top" /\ ops = 0
  /\ dirs = {} /\ files = {}
  /\ video_path = None /\ max_size_mb = 0
  /\ temp_audio = None /\ final_audio = None
  /\ ret = None /\ raised = FALSE /\ obs = NoObs
  /\ directory = None /\ listing = <<>> /\ idx = 0
  /\ processed_audio_files = <<>> /\ invoked = <<>> /\ results = <<>>
  /\ batchStatus = "none" /\ fs0 = <<{}, {}>>
  /\ encodedOk = {} /\ okCalls = {}
  /\ analysis = <<>> /\ saved = <<>> /\ last = <<"none">> /\ aops = 0

\* ------------------------------------------------------- video_to_audio
\* os.path.isfile(path)
IsFile(path, fs) == path \in fs

\* Faulty variant of CacheHit: the check looks at the intermediate path.
CacheHitOnTemp(vp, fs) == IsFile(TempAudio(vp), fs)

\* if os.path.isfile(final_audio)
CacheHit(vp, fs) == IsFile(FinalAudio(vp), fs)

\* A direct call video_to_audio(vp, m).
VideoToAudioCall(vp, m) ==
  /\ pc = "idle" /\ ops < MaxOps
  /\ ops' = ops + 1
  /\ pc' = "vta_start" /\ caller' = "top"
  /\ video_path' = vp /\ max_size_mb' = m
  /\ temp_audio' = None /\ final_audio' = None
  /\ ret' = None /\ raised' = FALSE
  /\ obs' = [NoObs EXCEPT !.files0 = files]
  \* the frame of an earlier batch is gone
  /\ batchStatus' = "none"
  /\ directory' = None /\ listing' = <<>> /\ idx' = 0
  /\ processed_audio_files' = <<>> /\ invoked' = <<>> /\ results' = <<>>
  /\ fs0' = <<{}, {}>>
  /\ UNCHANGED <<dirs, files, hist, ana>>

\* ensure_directories() (os.makedirs is taken to succeed), the three names,
\* and the existence check.
VtaStart ==
  /\ pc = "vta_start"
  /\ dirs' = dirs \cup { audio_dir, analysis_dir }
  /\ temp_audio' = TempAudio(video_path)
  /\ final_audio' = FinalAudio(video_path)
  /\ IF CacheHit(video_path, files)
     THEN /\ ret' = FinalAudio(video_path)
          /\ obs' = [obs EXCEPT !.hit = TRUE]
          /\ pc' = "vta_return"
     ELSE /\ ret' = None
          /\ obs' = obs
          /\ pc' = "vta_extract"
  /\ UNCHANGED <<caller, ops, files, video_path, max_size_mb, raised,
                 batch, hist, ana>>

\* Outcomes of the first try block: VideoFileClip() raising, no audio
\* track, write_audiofile raising before or after it created the file,
\* video.close() raising, or all three succeeding.
ExtractOutcomes ==
  { "open_error", "no_audio", "write_error_none", "write_error_partial",
    "close_error", "ok" }

VtaExtract(o) ==
  /\ pc = "vta_extract"
  /\ LET wrote == o \in { "write_error_partial", "close_error", "ok" }
     IN  /\ files' = IF wrote THEN files \cup { temp_audio } ELSE files
         /\ obs' = [obs EXCEPT !.decodes = 1,
                               !.noAudio = (o = "no_audio"),
                               !.tempCreated = wrote,
                               !.failed = IF o = "ok" THEN "" ELSE o]
  /\ ret' = None
  /\ pc' = IF o = "ok" THEN "vta_encode" ELSE "vta_return"
  /\ UNCHANGED <<caller, ops, dirs, video_path, max_size_mb, temp_audio,
                 final_audio, raised, batch, hist, ana>>

\* Outcomes of audio.export(): the file written, or an error raised with
\* or without the output file left behind.
ExportOutcomes == { "ok", "error_none", "error_partial" }

\* The second try block up to its finally clause, for an intermediate file
\* of the given size and duration.
VtaEncode(loads, bytes, ms, e) ==
  /\ pc = "vta_encode"
  /\ IF ~loads
     THEN \* AudioSegment.from_file raises
          /\ obs' = [obs EXCEPT !.failed = "from_file_error"]
          /\ ret' = None
          /\ files' = files
     ELSE IF ~WithinLimit(bytes, max_size_mb) /\ ms = 0
     THEN \* ZeroDivisionError in the target bitrate
          /\ obs' = [obs EXCEPT !.size_bytes = bytes, !.duration_ms = ms,
                                !.failed = "zero_division"]
          /\ ret' = None
          /\ files' = files
     ELSE /\ obs' = [obs EXCEPT
                       !.size_bytes = bytes, !.duration_ms = ms,
                       !.encodes = 1,
                       !.bitrate = IF WithinLimit(bytes, max_size_mb)
                                   THEN 192
                                   ELSE Bitrate(max_size_mb, ms),
                       !.exportOk = (e = "ok"),
                       !.failed = IF e = "ok" THEN "" ELSE "export_" \o e]
          /\ ret' = IF e = "ok" THEN final_audio ELSE None
          /\ files' = IF e \in { "ok", "error_partial" }
                      THEN files \cup { final_audio }
                      ELSE files
  /\ pc' = "vta_finally"
  /\ UNCHANGED <<caller, ops, dirs, video_path, max_size_mb, temp_audio,
                 final_audio, raised, batch, hist, ana>>

\* finally: if os.path.exists(temp_audio): os.remove(temp_audio).  An
\* error of os.remove leaves the finally clause as an exception.
VtaFinally(removes) ==
  /\ pc = "vta_finally"
  /\ IF temp_audio \in files
     THEN IF removes
          THEN /\ files' = files \ { temp_audio }
               /\ UNCHANGED <<ret, raised, obs>>
          ELSE /\ raised' = TRUE
               /\ ret' = None
               /\ obs' = [obs EXCEPT !.failed = "remove_error"]
               /\ files' = files
     ELSE /\ removes
          /\ UNCHANGED <<files, ret, raised, obs>>
  /\ pc' = "vta_return"
  /\ UNCHANGED <<caller, ops, dirs, video_path, max_size_mb, temp_audio,
                 final_audio, batch, hist, ana>>

\* The call returns to its caller, or the exception reaches it.
VtaReturn ==
  /\ pc = "vta_return"
  /\ LET encoded == ~raised /\ ret # None /\ obs.exportOk
     IN  /\ encodedOk' = IF encoded THEN encodedOk \cup { ret } ELSE encodedOk
         /\ okCalls' = IF encoded THEN okCalls \cup { <<video_path, ret>> }
                       ELSE okCalls
  /\ IF caller = "top"
     THEN /\ pc' = "idle"
          /\ UNCHANGED batch
     ELSE IF raised
     THEN \* the exception leaves process_videos_in_directory as well
          /\ pc' = "idle"
          /\ batchStatus' = "raised"
          /\ UNCHANGED <<directory, listing, idx, processed_audio_files,
                         invoked, results, fs0>>
     ELSE \* output_path = video_to_audio(video_path); if output_path: ...
          /\ pc' = "pvd_loop"
          /\ results' = Append(results, ret)
          /\ processed_audio_files' =
               IF ret # None /\ ret # <<>>
               THEN Append(processed_audio_files, ret)
               ELSE processed_audio_files
          /\ idx' = idx + 1
          /\ UNCHANGED <<directory, listing, invoked, batchStatus, fs0>>
  /\ video_path' = None /\ max_size_mb' = 0
  /\ temp_audio' = None /\ final_audio' = None
  /\ ret' = None /\ raised' = FALSE /\ obs' = NoObs
  /\ UNCHANGED <<caller, ops, dirs, files, ana>>

\* ------------------------------------------ process_videos_in_directory
\* Faulty variant of IsDir: every path is taken for a directory.
IsDirAlways(d) == TRUE

\* os.path.isdir(directory)
IsDir(d) == d \in ExistingDirs

\* process_videos_in_directory(d), with l what os.listdir(d) yields.
ProcessVideosCall(d, l) ==
  /\ pc = "idle" /\ ops < MaxOps
  /\ ops' = ops + 1
  /\ directory' = d
  /\ processed_audio_files' = <<>>
  /\ invoked' = <<>> /\ results' = <<>>
  /\ fs0' = <<files, dirs>>
  /\ IF ~IsDir(d)
     THEN \* print("Invalid directory"); return []
          /\ listing' = <<>> /\ idx' = 0
          /\ batchStatus' = "returned"
          /\ pc' = "idle"
     ELSE /\ listing' = l /\ idx' = 1
          /\ batchStatus' = "running"
          /\ pc' = "pvd_loop"
  /\ caller' = "top"
  /\ UNCHANGED <<dirs, files, frame, hist, ana>>

\* One turn of the for loop over os.listdir(directory), up to the call of
\* video_to_audio, or the return after the last entry.
PvdLoop ==
  /\ pc = "pvd_loop"
  /\ IF idx > Len(listing)
     THEN \* return processed_audio_files
          /\ pc' = "idle"
          /\ batchStatus' = "returned"
          /\ UNCHANGED <<caller, idx, invoked, frame>>
     ELSE IF IsVideoName(listing[idx])
     THEN /\ pc' = "vta_start" /\ caller' = "batch"
          /\ video_path' = Join(directory, listing[idx])
          /\ max_size_mb' = DefaultMaxSizeMb
          /\ obs' = [NoObs EXCEPT !.files0 = files]
          /\ invoked' = Append(invoked, idx)
          /\ UNCHANGED <<idx, batchStatus, temp_audio, final_audio, ret,
                         raised>>
     ELSE /\ idx' = idx + 1
          /\ pc' = "pvd_loop"
          /\ UNCHANGED <<caller, invoked, batchStatus, frame>>
  /\ UNCHANGED <<ops, dirs, files, directory, listing,
                 processed_audio_files, results, fs0, hist, ana>>

\* -------------------------------------------------------- specification
Next ==
  \/ \E vp \in VideoPaths, m \in MaxSizes : VideoToAudioCall(vp, m)
  \/ VtaStart
  \/ \E o \in ExtractOutcomes : VtaExtract(o)
  \/ \E loads \in BOOLEAN, bytes \in SizesFor(max_size_mb), ms \in Durations,
        e \in ExportOutcomes : VtaEncode(loads, bytes, ms, e)
  \/ \E removes \in BOOLEAN : VtaFinally(removes)
  \/ VtaReturn
  \/ \E d \in { video_dir, missing_dir }, l \in Listings :
        ProcessVideosCall(d, l)
  \/ PvdLoop

Spec == Init /\ [][Next]_vars

TypeOK ==
  /\ pc \in { "idle", "vta_start", "vta_extract", "vta_encode",
              "vta_finally", "vta_return", "pvd_loop" }
  /\ ops \in 0..MaxOps
  /\ batchStatus \in { "none", "running", "returned", "raised" }

\* ------------------------------------------------- analysis-file cache
N_a_mp3_mp4 == <<"a",".","m","p","3",".","m","p","4">>

\* Audio files handed to the analysis stage: final audio paths of videos.
AudioFiles ==
  { FinalAudio(Join(video_dir, n)) : n \in { N_a_mp4, N_c_MKV, N_a_mp3_mp4 } }

\* Characters of an analysis text: a letter, carriage return, line feed.
TextChars == { "x", "CR", "LF" }
Texts == SeqsUpTo(TextChars, MaxTextLen)

\* f.write(text) on a file opened with newline=None: "\n" becomes
\* os.linesep, which is "\n" on POSIX.
RECURSIVE WriteText(_)
WriteText(t) ==
  IF t = <<>> THEN <<>>
  ELSE (IF Head(t) = "LF" THEN <<"LF">> ELSE <<Head(t)>>) \o WriteText(Tail(t))

\* f.read() on a file opened with newline=None: "\r\n" and "\r" are read
\* as "\n".
RECURSIVE ReadText(_)
ReadText(b) ==
  IF b = <<>> THEN <<>>
  ELSE IF Head(b) = "CR"
       THEN IF Len(b) >= 2 /\ b[2] = "LF"
            THEN <<"LF">> \o ReadText(Tail(Tail(b)))
            ELSE <<"LF">> \o ReadText(Tail(b))
       ELSE <<Head(b)>> \o ReadText(Tail(b))

\* analysis_file of should_skip_analysis and of save_analysis
AnalysisFile(audio_file) ==
  Join(analysis_dir, SplitextRoot(Basename(audio_file)) \o Suffix_analysis_txt)

\* analysis_path of load_existing_analysis
AnalysisPath(audio_file) ==
  analysis_dir \o <<"/">>
    \o Replace(Basename(audio_file), Ext_mp3, Suffix_analysis_txt)

\* The value should_skip_analysis(audio_file, skip_reanalysis) returns
\* when the analysis directory holds fs.
ShouldSkipResult(audio_file, skip_reanalysis, fs) ==
  IF ~skip_reanalysis THEN FALSE
  ELSE AnalysisFile(audio_file) \in DOMAIN fs

\* The value load_existing_analysis(audio_file) returns.
LoadResult(audio_file, fs) ==
  IF AnalysisPath(audio_file) \in DOMAIN fs
  THEN <<TRUE, ReadText(fs[AnalysisPath(audio_file)])>>
  ELSE <<FALSE, None>>

WriteFile(fs, path, content) ==
  [ p \in DOMAIN fs \cup { path } |-> IF p = path THEN content ELSE fs[p] ]

save_analysis(audio_file, text) ==
  /\ pc = "idle" /\ aops < MaxAnalysisOps
  /\ aops' = aops + 1
  /\ dirs' = dirs \cup { audio_dir, analysis_dir }
  /\ analysis' = WriteFile(analysis, AnalysisFile(audio_file), WriteText(text))
  /\ saved' = WriteFile(saved, audio_file, text)
  /\ last' = <<"save", audio_file, text>>
  /\ UNCHANGED <<pc, caller, ops, files, frame, batch, hist>>

should_skip_analysis(audio_file, skip_reanalysis) ==
  /\ pc = "idle" /\ aops < MaxAnalysisOps
  /\ aops' = aops + 1
  /\ dirs' = IF skip_reanalysis THEN dirs \cup { audio_dir, analysis_dir }
             ELSE dirs
  /\ last' = <<"skip", audio_file, skip_reanalysis,
               ShouldSkipResult(audio_file, skip_reanalysis, analysis)>>
  /\ UNCHANGED <<pc, caller, ops, files, frame, batch, hist, analysis, saved>>

load_existing_analysis(audio_file) ==
  /\ pc = "idle" /\ aops < MaxAnalysisOps
  /\ aops' = aops + 1
  /\ last' = <<"load", audio_file, LoadResult(audio_file, analysis)>>
  /\ UNCHANGED <<pc, caller, ops, dirs, files, frame, batch, hist,
                 analysis, saved>>

NextAnalysis ==
  \/ \E af \in AudioFiles, t \in Texts : save_analysis(af, t)
  \/ \E af \in AudioFiles, k \in BOOLEAN : should_skip_analysis(af, k)
  \/ \E af \in AudioFiles : load_existing_analysis(af)

SpecAnalysis == Init /\ [][NextAnalysis]_vars

\* ---------------------------------------------------------- properties
Range(q) == { q[i] : i \in DOMAIN q }

\* The entry names of EntryNames that are videos, written out.
CandidateNames == { N_a_mp4, N_a_mkv, N_c_MKV }

\* A call of video_to_audio is about to return (or to raise).
AtReturn == pc = "vta_return"

\* No call of video_to_audio is running.
BetweenCalls == pc \in { "idle", "pvd_loop" }

\* C1: a call of video_to_audio made when output/audio/<base>.mp3 exists,
\* in particular a second call for a video whose first call encoded and
\* returned the path, returns that same path without decoding or encoding
\* and leaves the output directory, the intermediate file included, as it
\* found it.
C1_Idempotency ==
  AtReturn =>
    LET existed == FinalAudio(video_path) \in obs.files0
        before == { c \in okCalls : c[1] = video_path }
    IN  /\ (before # {}) => existed
        /\ existed =>
             /\ ~raised
             /\ ret = FinalAudio(video_path)
             /\ \A c \in before : ret = c[2]
             /\ obs.decodes = 0 /\ obs.encodes = 0
             /\ ~obs.tempCreated
             /\ files = obs.files0

\* A second call for a video whose first call succeeded is returning.
C1_Witness ==
  /\ AtReturn
  /\ \E c \in okCalls : c[1] = video_path /\ c[2] = ret
  /\ obs.decodes = 0

\* C2: once a call of video_to_audio has created the intermediate file,
\* fully or partially, the file is absent when the call returns, whether
\* the encode succeeded, the encode failed or the extraction failed after
\* the write had started.
C2_CleanupGuarantee ==
  (AtReturn /\ obs.tempCreated) => TempAudio(video_path) \notin files

\* The indices of the candidates of a listing, in listing order.
CandidateIdx(l) ==
  SelectSeq([i \in 1..Len(l) |-> i], LAMBDA i : l[i] \in CandidateNames)

\* C3: a batch over an existing directory never stops early: it ends by
\* returning, having invoked the transcoder on every matching entry in
\* listing order, and returns exactly the paths of the entries whose
\* transcode succeeded, in listing order.
C3_BatchResilience ==
  /\ batchStatus # "raised"
  /\ (batchStatus = "returned" /\ directory \in ExistingDirs) =>
       /\ invoked = CandidateIdx(listing)
       /\ Len(results) = Len(invoked)
       /\ processed_audio_files = SelectSeq(results, LAMBDA r : r # None)
       /\ \A k \in 1..Len(results) :
            results[k] # None =>
              results[k] = FinalAudio(Join(directory, listing[invoked[k]]))

\* C4: when the intermediate file is larger than max_size_mb megabytes and
\* lasts ms > 0 milliseconds, the bitrate b handed to the encoder is
\* floor(max_size_mb * 8192 / (ms / 1000)) clamped to 32..192: with
\* n = max_size_mb * 8192 * 1000, b * ms <= n < (b + 1) * ms inside the
\* range, n < 33 * ms at 32 and 192 * ms <= n at 192.  For 15 MB, 1000 s
\* give 122, 10 s give 192 and 100000 s give 32.
C4_SizeTargeting ==
  (/\ pc = "vta_finally" /\ obs.encodes = 1
   /\ obs.size_bytes > max_size_mb * MiB
   /\ obs.duration_ms > 0) =>
    LET b == obs.bitrate
        ms == obs.duration_ms
        n == max_size_mb * 8192 * 1000
    IN  /\ b \in 32..192
        /\ b > 32 => ms <= n \div b
        /\ b < 192 => ms > n \div (b + 1)
        /\ (max_size_mb = 15 /\ ms = 1000000) => b = 122
        /\ (max_size_mb = 15 /\ ms = 10000) => b = 192
        /\ (max_size_mb = 15 /\ ms = 100000000) => b = 32

\* An encode of an oversized intermediate of 1000 s under a 15 MB ceiling.
C4_Witness ==
  /\ pc = "vta_finally" /\ obs.encodes = 1
  /\ obs.size_bytes > max_size_mb * MiB
  /\ max_size_mb = 15 /\ obs.duration_ms = 1000000
  /\ obs.bitrate = 122

\* C5: a call on a video without audio track whose final audio path does
\* not exist returns None, never creates the intermediate file, attempts
\* no encode, and neither <base>_temp.wav nor <base>.mp3 exists when it
\* returns.
C5_NoAudio ==
  (AtReturn /\ obs.noAudio) =>
    /\ ret = None /\ ~raised
    /\ ~obs.tempCreated /\ obs.encodes = 0
    /\ TempAudio(video_path) \notin files
    /\ FinalAudio(video_path) \notin files

\* The entries of the listing that the loop has dealt with so far.
Examined(j) == j < idx \/ (j = idx /\ pc # "pvd_loop")

C6_Filter ==
  (batchStatus # "none" /\ directory \in ExistingDirs) =>
    \A j \in 1..Len(listing) :
      j \in Range(invoked) <=>
        (Examined(j) /\ listing[j] \in CandidateNames)

C6_Skip ==
  (/\ pc = "pvd_loop" /\ idx <= Len(listing)
   /\ listing[idx] \notin CandidateNames) =>
    /\ files' = files /\ dirs' = dirs /\ analysis' = analysis
    /\ pc' = "pvd_loop" /\ invoked' = invoked

\* C6: the batch hands an entry to the transcoder if and only if its name,
\* lower-cased, ends with .mp4, .avi, .mov or .mkv (a.mp4, a.mkv and c.MKV
\* do; b.txt and mov do not), and the step over any other entry creates,
\* writes and deletes nothing.
C6_ExtensionFiltering == []C6_Filter /\ [][C6_Skip]_vars

\* A batch over b.txt and c.MKV has returned, having invoked the
\* transcoder on c.MKV only.
C6_Witness ==
  /\ batchStatus = "returned"
  /\ listing = <<N_b_txt, N_c_MKV>>
  /\ invoked = <<2>>

\* C7: every failure inside video_to_audio becomes the returned value
\* None; no exception leaves video_to_audio.
C7_FailureContainment ==
  AtReturn => (~raised /\ (obs.failed # "" => ret = None))

\* C8: process_videos_in_directory on a path that is no directory returns
\* the empty sequence at once, never invokes the transcoder and leaves the
\* filesystem as it was.
C8_InvalidBatchRoot ==
  (batchStatus # "none" /\ directory = missing_dir) =>
    /\ batchStatus = "returned" /\ pc = "idle"
    /\ processed_audio_files = <<>>
    /\ invoked = <<>>
    /\ <<files, dirs>> = fs0

\* A batch on the missing directory has returned, after an earlier call
\* filled the output directory.
C8_Witness ==
  /\ batchStatus = "returned" /\ directory = missing_dir
  /\ files # {}

\* C9: between calls, output/audio/<base>.mp3 exists only if an earlier
\* call for that base name completed its encode and returned the path.
C9_CacheOnlyFromSuccess ==
  BetweenCalls =>
    \A vp \in VideoPaths :
      FinalAudio(vp) \in files => FinalAudio(vp) \in encodedOk

\* <base>_analysis.txt under output/analysis for an audio file <base>.mp3.
ExpectedAnalysisFile(audio_file) ==
  LET name == Basename(audio_file)
  IN  analysis_dir \o <<"/">>
        \o SubSeq(name, 1, Len(name) - Len(Ext_mp3)) \o Suffix_analysis_txt

\* C10: after save_analysis(audio_file, text) the file
\* output/analysis/<base>_analysis.txt exists, should_skip_analysis with
\* True answers true and load_existing_analysis returns (True, text);
\* should_skip_analysis with False answers false.
C10_AnalysisRoundTrip ==
  \A af \in AudioFiles :
    /\ ~ShouldSkipResult(af, FALSE, analysis)
    /\ af \in DOMAIN saved =>
         /\ ExpectedAnalysisFile(af) \in DOMAIN analysis
         /\ ShouldSkipResult(af, TRUE, analysis)
         /\ LoadResult(af, analysis) = <<TRUE, saved[af]>>

\* C11: every encode uses a bitrate in 32..192, and exactly 192 whenever
\* the intermediate file is no larger than max_size_mb megabytes, the size
\* equal to the ceiling included.
C11_BitrateRange ==
  (pc = "vta_finally" /\ obs.encodes = 1) =>
    /\ obs.bitrate >= 32 /\ obs.bitrate <= 192
    /\ obs.size_bytes <= max_size_mb * MiB => obs.bitrate = 192

\* An encode of an intermediate file of exactly max_size_mb megabytes whose
\* duration of 1000 s would give 122 kbps if it were oversized.
C11_Witness ==
  /\ pc = "vta_finally" /\ obs.encodes = 1
  /\ max_size_mb = 15
  /\ obs.size_bytes = 15 * MiB
  /\ obs.duration_ms = 1000000
  /\ obs.bitrate = 192

\* The two entries of EntryNames with base name a, and their final audio
\* path output/audio/a.mp3, written out.
SameBaseNames == { N_a_mp4, N_a_mkv }
P_a_mp3 == audio_dir \o <<"/", "a", ".", "m", "p", "3">>

\* The running call of the batch is for an entry of base name a, and an
\* earlier entry of base name a of this batch returned a path.
SecondOfSameBase ==
  /\ AtReturn /\ caller = "batch"
  /\ listing[idx] \in SameBaseNames
  /\ \E k \in 1..Len(results) :
       listing[invoked[k]] \in SameBaseNames /\ results[k] # None

\* C12: when a directory holds a.mp4 and a.mkv and the first one processed
\* succeeds, the second is answered from the cache without decode or
\* encode and with the same path; at most one a.mp3 exists; the returned
\* sequence holds output/audio/a.mp3 twice; and every path of the returned
\* sequence exists in output/audio when the batch returns.
C12_BaseNameKeying ==
  /\ SecondOfSameBase =>
       /\ ~raised /\ ret = P_a_mp3
       /\ \A k \in 1..Len(results) :
            listing[invoked[k]] \in SameBaseNames =>
              results[k] \in { None, ret }
       /\ obs.decodes = 0 /\ obs.encodes = 0
       /\ files = obs.files0
  /\ Cardinality({ FinalAudio(Join(video_dir, n)) : n \in SameBaseNames }
                   \cap files) <= 1
  /\ (batchStatus = "returned" /\ directory \in ExistingDirs) =>
       /\ \A k \in 1..Len(processed_audio_files) :
            processed_audio_files[k] \in files
       /\ (/\ SameBaseNames \subseteq Range(listing)
           /\ \E k \in 1..Len(results) :
                /\ listing[invoked[k]] \in SameBaseNames
                /\ results[k] # None
                /\ \E j \in (k + 1)..Len(invoked) :
                     listing[invoked[j]] \in SameBaseNames) =>
            Cardinality({ k \in 1..Len(processed_audio_files) :
                            processed_audio_files[k] = P_a_mp3 }) = 2

\* A batch over a.mp4 and a.mkv has returned output/audio/a.mp3 twice.
C12_Witness ==
  /\ batchStatus = "returned"
  /\ listing = <<N_a_mp4, N_a_mkv>>
  /\ processed_audio_files = <<P_a_mp3, P_a_mp3>>
  /\ P_a_mp3 \in files

====
